---- MODULE Spec2Model ----
(***************************************************************************)
(* The multi-task conveyor: a pool of worker threads draining one shared   *)
(* task queue, jobs that produce tasks from a detached driver thread, and  *)
(* the registry of jobs.                                                   *)
(*                                                                         *)
(* The repository holds two engines.  src/unnamed/part_000 tracks a job's  *)
(* completion with the atomic counter m_running_tasks ("counter").         *)
(* src/MultiThreadTask.h tracks it by scanning the queue for the job's     *)
(* tasks ("scan").  The variable `variant` says which engine a behaviour   *)
(* runs; every action branches on it where the two sources differ.         *)
(*                                                                         *)
(* Atomicity: one action is one critical section of a mutex, or one        *)
(* operation on an atomic, or one call of a client method.  A condition    *)
(* variable's wait set is the set of threads whose position is the         *)
(* corresponding "blocked" position; notify_all moves them all on.         *)
(* Spurious wake-ups are left out: every wait of the source re-tests its   *)
(* condition in a loop, so they add no state, and no progress property     *)
(* may rest on them.                                                       *)
(*                                                                         *)
(* The clients follow the call order of main: a job is made and submitted  *)
(* once (emplace_job), and restart_job and pop_job are called for a job    *)
(* that has been seen done.  Clients that pass nullptr (SpecHandles) or     *)
(* restart a job in mid-activation (SpecRestart) have specifications of    *)
(* their own, as has the constructor's thread count (SpecInit), where      *)
(* unsigned int and int are IntBits wide.                                  *)
(***************************************************************************)
EXTENDS Integers, Sequences, FiniteSets, TLC

\* ------------------------------------------------------------------ bounds
NJobs == 2
NWorkers == 2
NClients == 2
TASKS == 2
MaxCapacity == 1
MaxActivations == 2
MaxTerminate == 2
\* the width of unsigned int and int, scaled down from 32 bits
IntBits == 4

Jobs == 1..NJobs
Workers == 1..NWorkers
Clients == 1..NClients
Activations == 1..MaxActivations
Drivers == Jobs \X Activations

\* nullptr, as a JOBID and as the Task held by the shutdown sentinel
Null == 0

\* the thread that owns the MultiTask object (main: `MultiTask mt;`)
MainClient == 1

VARIABLES
    variant,              \* "counter" (part_000) or "scan" (MultiThreadTask.h)
    m_max_tasks,          \* MultiTask::m_max_tasks
    m_tasks,              \* MultiTask::m_tasks, the vector of worker threads
    m_tasks_queue,        \* MultiTask::m_tasks_queue
    m_jobs_map,           \* MultiTask::m_jobs_map, the set of keys
    m_is_all_task_pushed, \* Job::m_is_all_task_pushed, per job
    m_is_done,            \* Job::m_is_done, per job
    m_running_tasks,      \* Job::m_running_tasks, per job
    nTasks,               \* how many tasks Job::process pushes, per job
    clientJobs,           \* the jobs the client program makes and submits
    act,                  \* activations started so far, per job
    drv,                  \* the driver thread of each activation
    wrk,                  \* the worker threads
    cli,                  \* the client threads
    ret,                  \* what the last client call returned
    destroyed,            \* jobs whose object has been deleted
    hookRuns,             \* process_after_done calls, per activation
    execCount,            \* Task::process calls, per task
    joinCount,            \* thread::join calls, per worker
    popped,               \* pop_job calls that returned the object, per job
    terminateCalls,       \* terminate() calls made so far
    task_threads,         \* the constructor's argument task_threads
    hardware_concurrency, \* what thread::hardware_concurrency() reports
    ctor                  \* the constructor: "init" before init runs, then
                          \* "ready", or "length_error" when init threw

vars == <<variant, m_max_tasks, m_tasks, m_tasks_queue, m_jobs_map,
          m_is_all_task_pushed, m_is_done, m_running_tasks, nTasks, clientJobs,
          act, drv,
          wrk, cli, ret, destroyed, hookRuns, execCount, joinCount, popped,
          terminateCalls, task_threads, hardware_concurrency, ctor>>

engine == <<variant, m_max_tasks, nTasks, clientJobs, task_threads,
            hardware_concurrency, ctor>>
jobFlags == <<m_is_all_task_pushed, m_is_done, m_running_tasks>>
ghosts == <<hookRuns, execCount, joinCount, popped>>

Variants == {"counter", "scan"}

\* a queue entry: a task tagged with its job, or the shutdown sentinel
TaskIds == Jobs \X Activations \X (1..TASKS)
Task(j, a, i) == [job |-> j, act |-> a, idx |-> i]
Terminator == [job |-> Null, act |-> 0, idx |-> 0]
IsTerminator(t) == t.job = Null
TaskId(t) == <<t.job, t.act, t.idx>>

NoTask == [job |-> Null, act |-> 0, idx |-> 0]

\* the result of a client call: the operation, its handle argument, the value
\* returned (a JOBID, a bool as 0/1) and whether the caller ends up owning the
\* job object it passed in or received
NoRet == [op |-> "none", job |-> Null, val |-> Null, kept |-> FALSE]
Result(o, j, v, k) == [op |-> o, job |-> j, val |-> v, kept |-> k]

Range(s) == {s[k] : k \in 1..Len(s)}

\* unsigned int and int of IntBits bits
UInt == 0..(2^IntBits - 1)

\* a - b in unsigned int
unsigned_sub(a, b) == (a - b) % 2^IntBits

\* the conversion of an unsigned int to int (modulo 2^IntBits)
to_int(u) == IF u >= 2^(IntBits - 1) THEN u - 2^IntBits ELSE u

\* init: int task_threads_count = (task_threads == 0 ?
\* hardware_concurrency() - 1 : task_threads); if (!count) ++count
task_threads_count(n, h) ==
    LET count == to_int(IF n = 0 THEN unsigned_sub(h, 1) ELSE n)
    IN  IF count = 0 THEN count + 1 ELSE count

\* the state after MultiTask's constructor, for a client program that will
\* submit the jobs js to an engine made with NWorkers threads
InitFor(js) ==
    /\ variant \in Variants
    /\ m_max_tasks \in 0..MaxCapacity
    /\ clientJobs = js
    /\ task_threads = NWorkers
    /\ hardware_concurrency = NWorkers + 1
    /\ ctor = "ready"
    /\ m_tasks = [k \in 1..task_threads_count(task_threads, hardware_concurrency) |-> k]
    /\ m_tasks_queue = <<>>
    /\ m_jobs_map = {}
    /\ m_is_all_task_pushed = [j \in Jobs |-> FALSE]
    /\ m_is_done = [j \in Jobs |-> FALSE]
    /\ m_running_tasks = [j \in Jobs |-> 0]
    /\ nTasks \in {f \in [Jobs -> 0..TASKS] : \A j \in Jobs \ js : f[j] = 0}
    /\ act = [j \in Jobs |-> 0]
    /\ drv = [d \in Drivers |-> [pc |-> "none", i |-> 0, t |-> 0, blk |-> FALSE]]
    /\ wrk = [w \in Workers |-> [pc |-> "lock", task |-> NoTask]]
    /\ cli = [c \in Clients |-> [pc |-> "idle", job |-> Null]]
    /\ ret = NoRet
    /\ destroyed = {}
    /\ hookRuns = [d \in Drivers |-> 0]
    /\ execCount = [t \in TaskIds |-> 0]
    /\ joinCount = [w \in Workers |-> 0]
    /\ popped = [j \in Jobs |-> 0]
    /\ terminateCalls = 0

\* one job through its whole life, as in main
Init == InitFor({1})

\* every job submitted, sharing the queue and the pool
InitPool == InitFor(Jobs)

\* ------------------------------------------------------- condition variables
\* m_new_task_cv.notify_all(): every worker blocked in the wait re-checks
NotifyNewTask(ws) ==
    [w \in Workers |-> IF ws[w].pc = "cv_blocked" THEN [ws[w] EXCEPT !.pc = "lock"] ELSE ws[w]]

\* m_task_done.notify_all(): every producer blocked at capacity re-checks, and
\* (scan) every driver blocked in wait_job_tasks_done scans again
NotifyTaskDone(ds) ==
    [d \in Drivers |->
        IF ds[d].pc = "push_blocked" THEN [ds[d] EXCEPT !.pc = "push_recheck"]
        ELSE IF ds[d].pc = "tasks_blocked" THEN [ds[d] EXCEPT !.pc = "wait_tasks"]
        ELSE ds[d]]

\* m_is_done.notify_all(): every client blocked in wait_until_done re-checks
NotifyDone(cs, j) ==
    [c \in Clients |->
        IF cs[c].pc = "done_blocked" /\ cs[c].job = j
        THEN [cs[c] EXCEPT !.pc = "done_woken"] ELSE cs[c]]

\* ------------------------------------------------------------------ Job
\* is_job_tasks_queue_empty(jobid): no entry of the queue carries the handle
is_job_tasks_queue_empty(j) ==
    \A k \in 1..Len(m_tasks_queue) : m_tasks_queue[k].job # j

\* Job::reset()
reset(flags, j) == [flags EXCEPT ![j] = FALSE]

\* where a driver thread starts: CalcJob::process pushes nTasks tasks.  i is
\* the loop counter of process, t the local of wait_until_all_tasks_done, and
\* blk records that the push_task in progress has blocked at capacity
AfterPush(j, i) == IF i = nTasks[j] THEN "set_all_pushed" ELSE "push_lock"
NewDriver(j) == [pc |-> AfterPush(j, 0), i |-> 0, t |-> 0, blk |-> FALSE]

\* ------------------------------------------------------------- worker pool
\* mutant: the worker that meets the sentinel takes it out of the queue
WorkerLock_TakesSentinel(w) ==
    /\ wrk[w].pc = "lock"
    /\ IF Len(m_tasks_queue) = 0
       THEN /\ wrk' = [wrk EXCEPT ![w].pc = "cv_blocked"]
            /\ UNCHANGED m_tasks_queue
       ELSE IF IsTerminator(Head(m_tasks_queue))
       THEN /\ wrk' = [wrk EXCEPT ![w].pc = "exited"]
            /\ m_tasks_queue' = Tail(m_tasks_queue)
       ELSE /\ wrk' = [wrk EXCEPT ![w] = [pc |-> "process", task |-> Head(m_tasks_queue)]]
            /\ m_tasks_queue' = Tail(m_tasks_queue)
    /\ UNCHANGED <<engine, m_tasks, m_jobs_map, jobFlags, act, drv, cli, ret,
                   destroyed, ghosts, terminateCalls>>

\* mutant: the worker takes the newest entry of the queue
WorkerLock_TakesBack(w) ==
    /\ wrk[w].pc = "lock"
    /\ IF Len(m_tasks_queue) = 0
       THEN /\ wrk' = [wrk EXCEPT ![w].pc = "cv_blocked"]
            /\ UNCHANGED m_tasks_queue
       ELSE IF IsTerminator(Head(m_tasks_queue))
       THEN /\ wrk' = [wrk EXCEPT ![w].pc = "exited"]
            /\ UNCHANGED m_tasks_queue
       ELSE /\ wrk' = [wrk EXCEPT ![w] = [pc |-> "process",
                                          task |-> m_tasks_queue[Len(m_tasks_queue)]]]
            /\ m_tasks_queue' = SubSeq(m_tasks_queue, 1, Len(m_tasks_queue) - 1)
    /\ UNCHANGED <<engine, m_tasks, m_jobs_map, jobFlags, act, drv, cli, ret,
                   destroyed, ghosts, terminateCalls>>

\* process_task: lock, wait for a non-empty queue, stop at the sentinel
\* (which stays in the queue), else take the front task
WorkerLock(w) ==
    /\ wrk[w].pc = "lock"
    /\ IF Len(m_tasks_queue) = 0
       THEN /\ wrk' = [wrk EXCEPT ![w].pc = "cv_blocked"]
            /\ UNCHANGED m_tasks_queue
       ELSE IF IsTerminator(Head(m_tasks_queue))
       THEN /\ wrk' = [wrk EXCEPT ![w].pc = "exited"]
            /\ UNCHANGED m_tasks_queue
       ELSE /\ wrk' = [wrk EXCEPT ![w] = [pc |-> "process", task |-> Head(m_tasks_queue)]]
            /\ m_tasks_queue' = Tail(m_tasks_queue)
    /\ UNCHANGED <<engine, m_tasks, m_jobs_map, jobFlags, act, drv, cli, ret,
                   destroyed, ghosts, terminateCalls>>

\* task->process()
WorkerProcess(w) ==
    /\ wrk[w].pc = "process"
    /\ execCount' = [execCount EXCEPT ![TaskId(wrk[w].task)] = @ + 1]
    /\ wrk' = [wrk EXCEPT ![w].pc = IF variant = "counter" THEN "dec" ELSE "notify"]
    /\ UNCHANGED <<engine, m_tasks, m_tasks_queue, m_jobs_map, jobFlags, act, drv,
                   cli, ret, destroyed, hookRuns, joinCount, popped, terminateCalls>>

\* mutant: the decrement goes to whichever job has tasks outstanding
WorkerDec_AnyJob(w) ==
    /\ wrk[w].pc = "dec"
    /\ \E j \in Jobs :
          /\ m_running_tasks[j] > 0
          /\ m_running_tasks' = [m_running_tasks EXCEPT ![j] = @ - 1]
    /\ wrk' = [wrk EXCEPT ![w].pc = "notify"]
    /\ UNCHANGED <<engine, m_tasks, m_tasks_queue, m_jobs_map, m_is_all_task_pushed,
                   m_is_done, act, drv, cli, ret, destroyed, ghosts, terminateCalls>>

\* dec_task_count: --m_running_tasks
WorkerDec(w) ==
    /\ wrk[w].pc = "dec"
    /\ m_running_tasks' = [m_running_tasks EXCEPT ![wrk[w].task.job] = @ - 1]
    /\ wrk' = [wrk EXCEPT ![w].pc = "notify"]
    /\ UNCHANGED <<engine, m_tasks, m_tasks_queue, m_jobs_map, m_is_all_task_pushed,
                   m_is_done, act, drv, cli, ret, destroyed, ghosts, terminateCalls>>

\* m_running_tasks.notify_one(): one thread blocked in m_running_tasks.wait
\* of the job, if there is one, compares again
NotifyOne(ds, j) ==
    LET blocked == {d \in Drivers : d[1] = j /\ ds[d].pc = "count_blocked"}
    IN  IF blocked = {} THEN {ds}
        ELSE {[ds EXCEPT ![d].pc = "count_wait"] : d \in blocked}

\* mutant: the worker does not call m_task_done.notify_all()
WorkerNotify_NoTaskDone(w) ==
    /\ wrk[w].pc = "notify"
    /\ \E ds \in (IF variant = "counter" THEN NotifyOne(drv, wrk[w].task.job) ELSE {drv}) :
          drv' = ds
    /\ wrk' = [wrk EXCEPT ![w] = [pc |-> "lock", task |-> NoTask]]
    /\ UNCHANGED <<engine, m_tasks, m_tasks_queue, m_jobs_map, jobFlags, act, cli,
                   ret, destroyed, ghosts, terminateCalls>>

\* mutant: dec_task_count does not call m_running_tasks.notify_one()
WorkerNotify_NoNotifyOne(w) ==
    /\ wrk[w].pc = "notify"
    /\ drv' = NotifyTaskDone(drv)
    /\ wrk' = [wrk EXCEPT ![w] = [pc |-> "lock", task |-> NoTask]]
    /\ UNCHANGED <<engine, m_tasks, m_tasks_queue, m_jobs_map, jobFlags, act, cli,
                   ret, destroyed, ghosts, terminateCalls>>

\* the notifications after a task: dec_task_count's notify_one (counter) and
\* m_task_done.notify_all(), then back to the top of the loop.  The two wake
\* disjoint sets of blocked threads, and a blocked thread takes no step, so
\* every interleaving between them equals one with the two adjacent.
WorkerNotify(w) ==
    /\ wrk[w].pc = "notify"
    /\ \E ds \in (IF variant = "counter" THEN NotifyOne(drv, wrk[w].task.job) ELSE {drv}) :
          drv' = NotifyTaskDone(ds)
    /\ wrk' = [wrk EXCEPT ![w] = [pc |-> "lock", task |-> NoTask]]
    /\ UNCHANGED <<engine, m_tasks, m_tasks_queue, m_jobs_map, jobFlags, act, cli,
                   ret, destroyed, ghosts, terminateCalls>>

\* ------------------------------------------------------------- push_task
\* mutant: push_task appends without inc_task_count
Append_task_NoInc(d) ==
    /\ m_tasks_queue' = Append(m_tasks_queue, Task(d[1], d[2], drv[d].i + 1))
    /\ UNCHANGED m_running_tasks
    /\ drv' = [drv EXCEPT ![d].pc = "push_notify"]

\* the append under the lock: inc_task_count (counter) and push_back
Append_task(d) ==
    /\ m_tasks_queue' = Append(m_tasks_queue, Task(d[1], d[2], drv[d].i + 1))
    /\ m_running_tasks' = IF variant = "counter"
                          THEN [m_running_tasks EXCEPT ![d[1]] = @ + 1]
                          ELSE m_running_tasks
    /\ drv' = [drv EXCEPT ![d].pc = "push_notify"]

\* push_task, first test: if (m_max_tasks && size == m_max_tasks) wait
PushTaskLock(d) ==
    /\ drv[d].pc = "push_lock"
    /\ IF m_max_tasks # 0 /\ Len(m_tasks_queue) = m_max_tasks
       THEN /\ drv' = [drv EXCEPT ![d].pc = "push_blocked", ![d].blk = TRUE]
            /\ UNCHANGED <<m_tasks_queue, m_running_tasks>>
       ELSE Append_task(d)
    /\ UNCHANGED <<engine, m_tasks, m_jobs_map, m_is_all_task_pushed, m_is_done, act,
                   wrk, cli, ret, destroyed, ghosts, terminateCalls>>

\* mutant: a woken producer appends without testing the predicate again
PushTaskRecheck_NoPredicate(d) ==
    /\ drv[d].pc = "push_recheck"
    /\ Append_task(d)
    /\ UNCHANGED <<engine, m_tasks, m_jobs_map, m_is_all_task_pushed, m_is_done, act,
                   wrk, cli, ret, destroyed, ghosts, terminateCalls>>

\* push_task, woken in m_task_done.wait: the predicate size < m_max_tasks
PushTaskRecheck(d) ==
    /\ drv[d].pc = "push_recheck"
    /\ IF Len(m_tasks_queue) < m_max_tasks
       THEN Append_task(d)
       ELSE /\ drv' = [drv EXCEPT ![d].pc = "push_blocked"]
            /\ UNCHANGED <<m_tasks_queue, m_running_tasks>>
    /\ UNCHANGED <<engine, m_tasks, m_jobs_map, m_is_all_task_pushed, m_is_done, act,
                   wrk, cli, ret, destroyed, ghosts, terminateCalls>>

\* push_task: m_new_task_cv.notify_all() after the unlock, and the return
\* into the loop of CalcJob::process
PushTaskNotify(d) ==
    /\ drv[d].pc = "push_notify"
    /\ wrk' = NotifyNewTask(wrk)
    /\ drv' = [drv EXCEPT ![d] = [pc |-> AfterPush(d[1], drv[d].i + 1),
                                  i |-> drv[d].i + 1, t |-> 0, blk |-> FALSE]]
    /\ UNCHANGED <<engine, m_tasks, m_tasks_queue, m_jobs_map, jobFlags, act, cli,
                   ret, destroyed, ghosts, terminateCalls>>

\* ------------------------------------------------------------- process_job
\* job->set_all_tasks_pushed(), after job->process() has returned
DriverSetAllPushed(d) ==
    /\ drv[d].pc = "set_all_pushed"
    /\ m_is_all_task_pushed' = [m_is_all_task_pushed EXCEPT ![d[1]] = TRUE]
    /\ drv' = [drv EXCEPT ![d].pc = IF variant = "counter" THEN "count_load" ELSE "wait_tasks"]
    /\ UNCHANGED <<engine, m_tasks, m_tasks_queue, m_jobs_map, m_is_done,
                   m_running_tasks, act, wrk, cli, ret, destroyed, ghosts, terminateCalls>>

\* wait_until_all_tasks_done (counter): t = m_running_tasks; while (t)
DriverCountLoad(d) ==
    /\ drv[d].pc = "count_load"
    /\ drv' = [drv EXCEPT ![d].t = m_running_tasks[d[1]],
                          ![d].pc = IF m_running_tasks[d[1]] = 0 THEN "hook" ELSE "count_wait"]
    /\ UNCHANGED <<engine, m_tasks, m_tasks_queue, m_jobs_map, jobFlags, act, wrk,
                   cli, ret, destroyed, ghosts, terminateCalls>>

\* wait_until_all_tasks_done (counter): m_running_tasks.wait(t) returns when
\* the value differs from t and blocks, until notified, while it equals t
DriverCountWait(d) ==
    /\ drv[d].pc = "count_wait"
    /\ drv' = [drv EXCEPT ![d].pc = IF m_running_tasks[d[1]] # drv[d].t
                                    THEN "count_load" ELSE "count_blocked"]
    /\ UNCHANGED <<engine, m_tasks, m_tasks_queue, m_jobs_map, jobFlags, act, wrk,
                   cli, ret, destroyed, ghosts, terminateCalls>>

\* wait_job_tasks_done (scan): while (!is_job_tasks_queue_empty(jobid))
\* m_task_done.wait(lk)
DriverWaitTasks(d) ==
    /\ drv[d].pc = "wait_tasks"
    /\ drv' = [drv EXCEPT ![d].pc = IF is_job_tasks_queue_empty(d[1])
                                    THEN "set_done" ELSE "tasks_blocked"]
    /\ UNCHANGED <<engine, m_tasks, m_tasks_queue, m_jobs_map, jobFlags, act, wrk,
                   cli, ret, destroyed, ghosts, terminateCalls>>

\* process_after_done(): counter runs it before the done flag is set
\* (wait_until_all_tasks_done), scan after it (Job::set_done)
DriverHook(d) ==
    /\ drv[d].pc = "hook"
    /\ hookRuns' = [hookRuns EXCEPT ![d] = @ + 1]
    /\ drv' = [drv EXCEPT ![d].pc = IF variant = "counter" THEN "set_done" ELSE "exit"]
    /\ UNCHANGED <<engine, m_tasks, m_tasks_queue, m_jobs_map, jobFlags, act, wrk,
                   cli, ret, destroyed, execCount, joinCount, popped, terminateCalls>>

\* m_is_done.test_and_set(); m_is_done.notify_all()
DriverSetDone(d) ==
    /\ drv[d].pc = "set_done"
    /\ m_is_done' = [m_is_done EXCEPT ![d[1]] = TRUE]
    /\ cli' = NotifyDone(cli, d[1])
    /\ drv' = [drv EXCEPT ![d].pc = IF variant = "counter" THEN "exit" ELSE "hook"]
    /\ UNCHANGED <<engine, m_tasks, m_tasks_queue, m_jobs_map, m_is_all_task_pushed,
                   m_running_tasks, act, wrk, ret, destroyed, ghosts, terminateCalls>>

\* ------------------------------------------------------------ client calls
Idle(c) == cli[c].pc = "idle"

\* emplace_job<T>(args): make_unique, then push_job with a handle that is
\* not in the map: the job is registered and its driver thread started
emplace_job(c, j) ==
    /\ Idle(c)
    /\ j \in clientJobs
    /\ act[j] = 0
    /\ j \notin m_jobs_map
    /\ m_jobs_map' = m_jobs_map \cup {j}
    /\ act' = [act EXCEPT ![j] = 1]
    /\ drv' = [drv EXCEPT ![<<j, 1>>] = NewDriver(j)]
    /\ ret' = Result("push_job", j, j, FALSE)
    /\ UNCHANGED <<engine, m_tasks, m_tasks_queue, jobFlags, wrk, cli, destroyed,
                   ghosts, terminateCalls>>

\* push_job(unique_ptr) with a handle that is already in the map.  counter:
\* try_emplace leaves the caller's unique_ptr alone and job_ptr is returned.
\* scan: insert(pair{...}) has moved the unique_ptr into the pair, which
\* deletes the object when the insertion fails, and 0 is returned; the
\* threads of the job run on with the freed object, and the clients make no
\* further call with the handle.
push_job(c, j) ==
    /\ Idle(c)
    /\ j \notin destroyed
    /\ j \in m_jobs_map
    /\ IF variant = "counter"
       THEN /\ ret' = Result("push_job_again", j, j, TRUE)
            /\ UNCHANGED destroyed
       ELSE /\ ret' = Result("push_job_again", j, Null, FALSE)
            /\ destroyed' = destroyed \cup {j}
    /\ UNCHANGED <<engine, m_tasks, m_tasks_queue, m_jobs_map, jobFlags, act, drv,
                   wrk, cli, ghosts, terminateCalls>>

\* what the callers of this repository do before they extract or restart a
\* job: wait until it is done (main: wait_job_done, then restart_job/pop_job)
CallerSawDone(j) == m_is_done[j]

\* mutant: the object is handed out but the entry stays in the map
pop_job_KeepsEntry(c, j) ==
    /\ Idle(c)
    /\ variant = "counter"
    /\ j \notin destroyed
    /\ act[j] > 0
    /\ j \in m_jobs_map => CallerSawDone(j)
    /\ IF j \in m_jobs_map
       THEN /\ popped' = [popped EXCEPT ![j] = @ + 1]
            /\ ret' = Result("pop_job", j, j, TRUE)
       ELSE /\ UNCHANGED popped
            /\ ret' = Result("pop_job", j, Null, FALSE)
    /\ UNCHANGED <<engine, m_tasks, m_tasks_queue, m_jobs_map, jobFlags, act, drv,
                   wrk, cli, destroyed, hookRuns, execCount, joinCount, terminateCalls>>

\* pop_job(jobid) (counter; the scan engine has none): extract under the
\* registry mutex
pop_job(c, j) ==
    /\ Idle(c)
    /\ variant = "counter"
    /\ j \notin destroyed
    /\ act[j] > 0
    /\ j \in m_jobs_map => CallerSawDone(j)
    /\ IF j \in m_jobs_map
       THEN /\ m_jobs_map' = m_jobs_map \ {j}
            /\ popped' = [popped EXCEPT ![j] = @ + 1]
            /\ ret' = Result("pop_job", j, j, TRUE)
       ELSE /\ UNCHANGED <<m_jobs_map, popped>>
            /\ ret' = Result("pop_job", j, Null, FALSE)
    /\ UNCHANGED <<engine, m_tasks, m_tasks_queue, jobFlags, act, drv, wrk, cli,
                   destroyed, hookRuns, execCount, joinCount, terminateCalls>>

\* mutant: the done flag of the previous activation is not cleared
restart_job_StaleDone(c, j) ==
    /\ Idle(c)
    /\ j \notin destroyed
    /\ CallerSawDone(j)
    /\ act[j] < MaxActivations
    /\ m_is_all_task_pushed' = reset(m_is_all_task_pushed, j)
    /\ act' = [act EXCEPT ![j] = @ + 1]
    /\ drv' = [drv EXCEPT ![<<j, act[j] + 1>>] = NewDriver(j)]
    /\ UNCHANGED <<engine, m_tasks, m_tasks_queue, m_jobs_map, m_is_done,
                   m_running_tasks, wrk, cli, ret, destroyed, ghosts, terminateCalls>>

\* restart_job(jobid): reset() and a new detached driver thread
restart_job(c, j) ==
    /\ Idle(c)
    /\ j \notin destroyed
    /\ CallerSawDone(j)
    /\ act[j] < MaxActivations
    /\ m_is_all_task_pushed' = reset(m_is_all_task_pushed, j)
    /\ m_is_done' = reset(m_is_done, j)
    /\ act' = [act EXCEPT ![j] = @ + 1]
    /\ drv' = [drv EXCEPT ![<<j, act[j] + 1>>] = NewDriver(j)]
    /\ UNCHANGED <<engine, m_tasks, m_tasks_queue, m_jobs_map, m_running_tasks, wrk,
                   cli, ret, destroyed, ghosts, terminateCalls>>

\* restart_job(jobid) called by a client that has not waited for the job to
\* be done: the source tests nothing but the null handle, so reset() and the
\* new driver thread happen all the same
restart_job_early(c, j) ==
    /\ Idle(c)
    /\ j \notin destroyed
    /\ act[j] >= 1
    /\ ~CallerSawDone(j)
    /\ act[j] < MaxActivations
    /\ m_is_all_task_pushed' = reset(m_is_all_task_pushed, j)
    /\ m_is_done' = reset(m_is_done, j)
    /\ act' = [act EXCEPT ![j] = @ + 1]
    /\ drv' = [drv EXCEPT ![<<j, act[j] + 1>>] = NewDriver(j)]
    /\ UNCHANGED <<engine, m_tasks, m_tasks_queue, m_jobs_map, m_running_tasks, wrk,
                   cli, ret, destroyed, ghosts, terminateCalls>>

\* check_job_is_done(jobid): counter reads the counter, scan scans the queue
check_job_is_done(j) ==
    IF variant = "counter" THEN m_running_tasks[j] = 0 ELSE is_job_tasks_queue_empty(j)

CheckJobIsDone(c, j) ==
    /\ Idle(c)
    /\ j \notin destroyed
    /\ act[j] > 0
    /\ ret' = Result("check_job_is_done", j, IF check_job_is_done(j) THEN 1 ELSE 0, FALSE)
    /\ UNCHANGED <<engine, m_tasks, m_tasks_queue, m_jobs_map, jobFlags, act, drv,
                   wrk, cli, destroyed, ghosts, terminateCalls>>

\* wait_until_done: m_is_done.wait(false) returns once the flag is set and
\* blocks, until notified, while it is clear
wait_until_done(c, j) ==
    IF m_is_done[j]
    THEN /\ cli' = [cli EXCEPT ![c] = [pc |-> "idle", job |-> Null]]
         /\ ret' = Result("wait_job_done", j, Null, FALSE)
    ELSE /\ cli' = [cli EXCEPT ![c] = [pc |-> "done_blocked", job |-> j]]
         /\ UNCHANGED ret

\* wait_job_done(jobid) (counter) / myjob->wait_until_done() (scan): the call
WaitJobDone(c, j) ==
    /\ Idle(c)
    /\ j \notin destroyed
    /\ act[j] > 0
    /\ wait_until_done(c, j)
    /\ UNCHANGED <<engine, m_tasks, m_tasks_queue, m_jobs_map, jobFlags, act, drv,
                   wrk, destroyed, ghosts, terminateCalls>>

\* a waiter woken by m_is_done.notify_all() tests the flag again
WaitWoken(c) ==
    /\ cli[c].pc = "done_woken"
    /\ wait_until_done(c, cli[c].job)
    /\ UNCHANGED <<engine, m_tasks, m_tasks_queue, m_jobs_map, jobFlags, act, drv,
                   wrk, destroyed, ghosts, terminateCalls>>

\* ------------------------------------------------- calls with any handle
\* what a client can pass as a JOBID: a job's handle or nullptr
Handles == Jobs \cup {Null}

\* restart_job(jobid): if (jobid == nullptr) return; else as above
restart_job_handle(c, h) ==
    IF h = Null
    THEN /\ Idle(c)
         /\ ret' = Result("restart_job", Null, Null, FALSE)
         /\ UNCHANGED <<engine, m_tasks, m_tasks_queue, m_jobs_map, jobFlags, act, drv,
                        wrk, cli, destroyed, ghosts, terminateCalls>>
    ELSE restart_job(c, h)

\* check_job_is_done(jobid): if (jobid == nullptr) return true; else as above
check_job_is_done_handle(c, h) ==
    IF h = Null
    THEN /\ Idle(c)
         /\ ret' = Result("check_job_is_done", Null, 1, FALSE)
         /\ UNCHANGED <<engine, m_tasks, m_tasks_queue, m_jobs_map, jobFlags, act, drv,
                        wrk, cli, destroyed, ghosts, terminateCalls>>
    ELSE CheckJobIsDone(c, h)

\* mutant: the null handle is waited for like a job that is not done
wait_job_done_handle_NullBlocks(c, h) ==
    IF h = Null
    THEN /\ Idle(c)
         /\ cli' = [cli EXCEPT ![c] = [pc |-> "done_blocked", job |-> Null]]
         /\ UNCHANGED <<engine, m_tasks, m_tasks_queue, m_jobs_map, jobFlags, act, drv,
                        wrk, ret, destroyed, ghosts, terminateCalls>>
    ELSE WaitJobDone(c, h)

\* wait_job_done(jobid) (counter) / wait_job_tasks_done(jobid) called by a
\* client (scan): if (jobid == nullptr) return; else as above
wait_job_done_handle(c, h) ==
    IF h = Null
    THEN /\ Idle(c)
         /\ ret' = Result("wait_job_done", Null, Null, FALSE)
         /\ UNCHANGED <<engine, m_tasks, m_tasks_queue, m_jobs_map, jobFlags, act, drv,
                        wrk, cli, destroyed, ghosts, terminateCalls>>
    ELSE WaitJobDone(c, h)

\* ---------------------------------------------------------------- terminate
\* terminate(): under the queue mutex, clear the queue and push the sentinel;
\* after the unlock, m_new_task_cv.notify_all()
TerminateBegin(c) ==
    /\ Idle(c)
    /\ c = MainClient
    /\ terminateCalls < MaxTerminate
    /\ terminateCalls' = terminateCalls + 1
    /\ m_tasks_queue' = <<Terminator>>
    /\ wrk' = NotifyNewTask(wrk)
    /\ cli' = [cli EXCEPT ![c] = [pc |-> "term_join", job |-> Null]]
    /\ UNCHANGED <<engine, m_tasks, m_jobs_map, jobFlags, act, drv, ret, destroyed,
                   ghosts>>

\* mutant: the joined threads stay in m_tasks
TerminateJoin_KeepsThreads(c) ==
    /\ cli[c].pc = "term_join"
    /\ \A w \in Range(m_tasks) : wrk[w].pc = "exited"
    /\ joinCount' = [w \in Workers |-> IF w \in Range(m_tasks) THEN joinCount[w] + 1
                                       ELSE joinCount[w]]
    /\ m_tasks_queue' = <<>>
    /\ cli' = [cli EXCEPT ![c] = [pc |-> "idle", job |-> Null]]
    /\ ret' = Result("terminate", Null, Null, FALSE)
    /\ UNCHANGED <<engine, m_tasks, m_jobs_map, jobFlags, act, drv, wrk, destroyed,
                   hookRuns, execCount, popped, terminateCalls>>

\* terminate(): for (auto& t : m_tasks) t.join() returns when every thread of
\* m_tasks has left process_task; then m_tasks.clear(), m_tasks_queue.clear()
\* (the source clears the queue here without holding the queue mutex)
TerminateJoin(c) ==
    /\ cli[c].pc = "term_join"
    /\ \A w \in Range(m_tasks) : wrk[w].pc = "exited"
    /\ joinCount' = [w \in Workers |-> IF w \in Range(m_tasks) THEN joinCount[w] + 1
                                       ELSE joinCount[w]]
    /\ m_tasks' = <<>>
    /\ m_tasks_queue' = <<>>
    /\ cli' = [cli EXCEPT ![c] = [pc |-> "idle", job |-> Null]]
    /\ ret' = Result("terminate", Null, Null, FALSE)
    /\ UNCHANGED <<engine, m_jobs_map, jobFlags, act, drv, wrk, destroyed, hookRuns,
                   execCount, popped, terminateCalls>>

\* ------------------------------------------------------------ specification
WorkerStep ==
    \E w \in Workers :
        \/ WorkerLock(w)
        \/ WorkerProcess(w)
        \/ WorkerDec(w)
        \/ WorkerNotify(w)

DriverStep ==
    \E d \in Drivers :
        \/ PushTaskLock(d)
        \/ PushTaskRecheck(d)
        \/ PushTaskNotify(d)
        \/ DriverSetAllPushed(d)
        \/ DriverCountLoad(d)
        \/ DriverCountWait(d)
        \/ DriverWaitTasks(d)
        \/ DriverHook(d)
        \/ DriverSetDone(d)

ClientStep ==
    \E c \in Clients :
        \/ \E j \in Jobs :
            \/ emplace_job(c, j)
            \/ push_job(c, j)
            \/ pop_job(c, j)
            \/ restart_job(c, j)
            \/ CheckJobIsDone(c, j)
            \/ WaitJobDone(c, j)
        \/ WaitWoken(c)
        \/ TerminateBegin(c)
        \/ TerminateJoin(c)

Next == WorkerStep \/ DriverStep \/ ClientStep

Spec == Init /\ [][Next]_vars

\* the client calls of a program that submits every job and shuts down
PoolClientStep ==
    \E c \in Clients :
        \/ \E j \in Jobs : emplace_job(c, j)
        \/ TerminateBegin(c)
        \/ TerminateJoin(c)

NextPool == WorkerStep \/ DriverStep \/ PoolClientStep

SpecPool == InitPool /\ [][NextPool]_vars

\* a program whose clients also pass nullptr as the handle
HandleClientStep ==
    \E c \in Clients :
        \/ \E j \in Jobs :
            \/ emplace_job(c, j)
            \/ pop_job(c, j)
        \/ \E h \in Handles :
            \/ restart_job_handle(c, h)
            \/ check_job_is_done_handle(c, h)
            \/ wait_job_done_handle(c, h)
        \/ WaitWoken(c)
        \/ TerminateBegin(c)
        \/ TerminateJoin(c)

NextHandles == WorkerStep \/ DriverStep \/ HandleClientStep

SpecHandles == Init /\ [][NextHandles]_vars

\* a program that restarts a job whenever it likes
RestartClientStep ==
    \E c \in Clients : \E j \in Jobs :
        \/ emplace_job(c, j)
        \/ restart_job(c, j)
        \/ restart_job_early(c, j)

NextRestart == WorkerStep \/ DriverStep \/ RestartClientStep

SpecRestart == Init /\ [][NextRestart]_vars

\* ---------------------------------------------------------------- init
\* the state in which the constructor calls init: no thread, no job, and any
\* configured thread count and reported hardware parallelism
InitCtor ==
    /\ variant \in Variants
    /\ m_max_tasks \in 0..MaxCapacity
    /\ clientJobs = {}
    /\ task_threads \in UInt
    /\ hardware_concurrency \in UInt
    /\ ctor = "init"
    /\ m_tasks = <<>>
    /\ m_tasks_queue = <<>>
    /\ m_jobs_map = {}
    /\ m_is_all_task_pushed = [j \in Jobs |-> FALSE]
    /\ m_is_done = [j \in Jobs |-> FALSE]
    /\ m_running_tasks = [j \in Jobs |-> 0]
    /\ nTasks = [j \in Jobs |-> 0]
    /\ act = [j \in Jobs |-> 0]
    /\ drv = [d \in Drivers |-> [pc |-> "none", i |-> 0, t |-> 0, blk |-> FALSE]]
    /\ wrk = <<>>
    /\ cli = [c \in Clients |-> [pc |-> "idle", job |-> Null]]
    /\ ret = NoRet
    /\ destroyed = {}
    /\ hookRuns = [d \in Drivers |-> 0]
    /\ execCount = [t \in TaskIds |-> 0]
    /\ joinCount = [w \in Workers |-> 0]
    /\ popped = [j \in Jobs |-> 0]
    /\ terminateCalls = 0

\* init(task_threads, max_tasks): m_tasks.reserve(count) converts the int to
\* size_t and throws length_error for a negative count, before any thread is
\* made; otherwise count threads are started in process_task
init ==
    /\ ctor = "init"
    /\ LET count == task_threads_count(task_threads, hardware_concurrency)
       IN  IF count < 0
           THEN /\ ctor' = "length_error"
                /\ UNCHANGED <<m_tasks, wrk>>
           ELSE /\ ctor' = "ready"
                /\ m_tasks' = [k \in 1..count |-> k]
                /\ wrk' = [w \in 1..count |-> [pc |-> "lock", task |-> NoTask]]
    /\ UNCHANGED <<variant, m_max_tasks, nTasks, clientJobs, task_threads,
                   hardware_concurrency, m_tasks_queue, m_jobs_map, jobFlags, act,
                   drv, cli, ret, destroyed, ghosts, terminateCalls>>

SpecInit == InitCtor /\ [][init]_vars

\* ------------------------------------------------------------------ fairness
\* every thread that can take a step eventually takes one, and every
\* Task::process and every client method of a job returns
WorkerFair ==
    \A w \in Workers :
        WF_vars(WorkerLock(w) \/ WorkerProcess(w) \/ WorkerDec(w) \/ WorkerNotify(w))

DriverFair ==
    \A d \in Drivers :
        WF_vars(PushTaskLock(d) \/ PushTaskRecheck(d) \/ PushTaskNotify(d)
                \/ DriverSetAllPushed(d) \/ DriverCountLoad(d) \/ DriverCountWait(d)
                \/ DriverWaitTasks(d) \/ DriverHook(d) \/ DriverSetDone(d))

\* a program that submits every job to an engine with a bounded queue and
\* never shuts it down
InitBounded == InitPool /\ m_max_tasks > 0

SubmitStep == \E c \in Clients : \E j \in Jobs : emplace_job(c, j)

NextSubmit == WorkerStep \/ DriverStep \/ SubmitStep

FairSubmit == InitBounded /\ [][NextSubmit]_vars /\ WorkerFair /\ DriverFair

\* the counter engine with every job submitted and no shutdown, any capacity
InitCounterPool == InitPool /\ variant = "counter"

\* process_job of the counter engine, which has no wait_job_tasks_done
CounterDriverStep ==
    \E d \in Drivers :
        \/ PushTaskLock(d)
        \/ PushTaskRecheck(d)
        \/ PushTaskNotify(d)
        \/ DriverSetAllPushed(d)
        \/ DriverCountLoad(d)
        \/ DriverCountWait(d)
        \/ DriverHook(d)
        \/ DriverSetDone(d)

NextCounterSubmit == WorkerStep \/ CounterDriverStep \/ SubmitStep

FairCounterPool ==
    InitCounterPool /\ [][NextCounterSubmit]_vars /\ WorkerFair /\ DriverFair

\* a program that submits a job, waits for it and restarts it, and never
\* shuts the engine down; a woken waiter gets to test the flag again
LifecycleClientStep ==
    \E c \in Clients :
        \/ \E j \in Jobs :
            \/ emplace_job(c, j)
            \/ restart_job(c, j)
            \/ WaitJobDone(c, j)
        \/ WaitWoken(c)

NextLifecycle == WorkerStep \/ DriverStep \/ LifecycleClientStep

WaiterFair == \A c \in Clients : WF_vars(WaitWoken(c))

FairLifecycle ==
    Init /\ [][NextLifecycle]_vars /\ WorkerFair /\ DriverFair /\ WaiterFair

\* a program that submits one job and shuts the engine down, with a terminate()
\* whose join returns once the thread has ended
FairShutdown ==
    Init /\ [][NextPool]_vars /\ WorkerFair /\ DriverFair
         /\ WF_vars(TerminateJoin(MainClient))

\* a program that submits its job before it shuts the engine down, with
\* clients waiting for the job
emplace_job_first(c, j) == terminateCalls = 0 /\ emplace_job(c, j)

ShutdownClientStep ==
    \E c \in Clients :
        \/ \E j \in Jobs :
            \/ emplace_job_first(c, j)
            \/ WaitJobDone(c, j)
        \/ WaitWoken(c)
        \/ TerminateBegin(c)
        \/ TerminateJoin(c)

NextShutdown == WorkerStep \/ DriverStep \/ ShutdownClientStep

FairShutdownJobs ==
    Init /\ [][NextShutdown]_vars /\ WorkerFair /\ DriverFair /\ WaiterFair
         /\ WF_vars(TerminateJoin(MainClient))

TypeOK ==
    /\ variant \in Variants
    /\ m_max_tasks \in 0..MaxCapacity
    /\ m_jobs_map \subseteq Jobs
    /\ \A j \in Jobs : m_running_tasks[j] \in 0..(MaxActivations * TASKS)
    /\ task_threads \in UInt
    /\ hardware_concurrency \in UInt
    /\ ctor \in {"init", "ready", "length_error"}

\* ------------------------------------------------------------------ claims
\* the driver of a job's current activation
Cur(j) == <<j, act[j]>>

\* a task of activation a of job j that a worker has dequeued and whose
\* process() has not returned
Executing(j, a) ==
    \E w \in Workers : /\ wrk[w].pc = "process"
                       /\ wrk[w].task.job = j
                       /\ wrk[w].task.act = a

\* every task the production step of activation a pushes has finished
\* executing, exactly once
AllTasksDoneOnce(j, a) == \A i \in 1..nTasks[j] : execCount[<<j, a, i>>] = 1

\* Job::is_done(), and the condition under which wait_until_done returns
is_done(j) == m_is_done[j]

\* C1: a wait for a job's completion returns (the done flag is set) only after
\* all N tasks of the activation have finished executing, each exactly once,
\* with none of them dequeued and still executing; process_after_done has run
\* at most once by then and exactly once when the driver has finished.
C1_WaitReturnsAfterAllTasks ==
    \A j \in Jobs :
        (act[j] > 0 /\ is_done(j)) =>
            /\ AllTasksDoneOnce(j, act[j])
            /\ ~Executing(j, act[j])
            /\ hookRuns[Cur(j)] <= 1
            /\ drv[Cur(j)].pc = "exit" => hookRuns[Cur(j)] = 1

\* C2: the completion hook of the activation has returned before the job is
\* observably done (is_done() true, wait_until_done returning).
C2_HookBeforeDone ==
    \A j \in Jobs : (act[j] > 0 /\ is_done(j)) => hookRuns[Cur(j)] >= 1

\* the job's current activation has reached Done
Done(j) ==
    /\ m_is_all_task_pushed[j]
    /\ m_is_done[j]
    /\ hookRuns[Cur(j)] = 1
    /\ AllTasksDoneOnce(j, act[j])

\* C3: check_job_is_done of a registered job returns true only if the job's
\* current activation has reached Done.
C3_CheckIsDoneOnlyWhenDone ==
    \A j \in m_jobs_map : check_job_is_done(j) => Done(j)

\* C4: with capacity C > 0 the queue never holds more than C entries.
C4_QueueWithinCapacity ==
    m_max_tasks > 0 => Len(m_tasks_queue) <= m_max_tasks

\* C4 witness: two producers are held back by a queue that is at capacity
C4_Witness ==
    /\ m_max_tasks > 0
    /\ Len(m_tasks_queue) = m_max_tasks
    /\ Cardinality({d \in Drivers : drv[d].pc = "push_blocked"}) >= 2

\* C6: push_job with a handle that is already registered returns a result
\* that differs from the handle a successful submission returns, and leaves
\* the rejected job alive and owned by the caller.
C6_DuplicateRejected ==
    ret.op = "push_job_again" =>
        /\ ret.val # ret.job
        /\ ret.kept
        /\ ret.job \notin destroyed

\* C8: pop_job of a registered job that is done removes the entry and returns
\* the object; a later pop_job of the handle returns empty and leaves the
\* registry as it is; the object is handed out at most once.
C8_PopJobOnce ==
    /\ \A j \in Jobs : /\ popped[j] <= 1
                       /\ popped[j] = 1 => j \notin m_jobs_map
                       /\ (act[j] > 0 /\ j \notin m_jobs_map) => popped[j] = 1
    /\ ret.op = "pop_job" =>
          /\ ret.job \notin m_jobs_map
          /\ ret.val \in {Null, ret.job}
          /\ ret.kept = (ret.val = ret.job)

\* C8 witness: the second pop_job of a handle has returned empty
C8_Witness ==
    /\ ret.op = "pop_job"
    /\ ret.val = Null
    /\ popped[ret.job] = 1

\* C10: every worker thread is joined at most once, and a second terminate()
\* finds no thread left to join, so its join loop cannot block.
C10_ShutdownIdempotent ==
    /\ \A w \in Workers : joinCount[w] <= 1
    /\ (cli[MainClient].pc = "term_join" /\ terminateCalls >= 2) => m_tasks = <<>>
    /\ m_tasks = <<>> => \A w \in Workers : joinCount[w] = 1

\* C10 witness: the second terminate() has returned
C10_Witness ==
    /\ terminateCalls = 2
    /\ cli[MainClient].pc = "idle"
    /\ ret.op = "terminate"
    /\ \A w \in Workers : joinCount[w] = 1

\* C5: without shutdown, with capacity C > 0, a push_task that blocked at
\* capacity eventually appends its task.
C5_BlockedPushProceeds ==
    \A d \in Drivers : (drv[d].pc = "push_blocked") ~> (drv[d].pc = "push_notify")

\* C5 witness: a producer that had blocked at capacity has appended its task
\* while another producer is blocked
C5_Witness ==
    \E d, e \in Drivers :
        /\ d # e
        /\ drv[d].pc = "push_notify"
        /\ drv[d].blk
        /\ drv[e].pc = "push_blocked"

\* the step of restart_job for job j
RestartStep(j) == act[j] >= 1 /\ act'[j] = act[j] + 1

Terminating == cli[MainClient].pc = "term_join"

\* C9: terminate() returns only after every worker has left its loop, no
\* worker takes the sentinel out of the queue or exits with a task it has not
\* finished, and terminate() always returns.
C9_TerminateJoinsAll ==
    /\ [](m_tasks = <<>> => \A w \in Workers : wrk[w].pc = "exited")
    /\ [](Terminating => (m_tasks_queue # <<>> /\ IsTerminator(Head(m_tasks_queue))))
    /\ [](\A w \in Workers : wrk[w].pc = "exited" => wrk[w].task = NoTask)
    /\ (Terminating ~> ~Terminating)

\* C9 witness: while terminate() waits in join, one worker is still executing
\* the task it had when shutdown began and another, woken by the shutdown
\* signal, has left its loop
C9_Witness ==
    /\ Terminating
    /\ \E w \in Workers : wrk[w].pc = "process"
    /\ \E w \in Workers : wrk[w].pc = "exited"

\* terminate() has been called at least once
ShutdownBegun == terminateCalls > 0

\* C11: once terminate() has begun, no push_job registers a job, and no
\* push_task call that starts afterwards appends its task or blocks at
\* capacity: the call is refused instead.
C11_RejectsAfterShutdown ==
    [][ShutdownBegun =>
          /\ m_jobs_map' \subseteq m_jobs_map
          /\ \A d \in Drivers :
                drv[d].pc = "push_lock" => drv'[d].pc \notin {"push_blocked", "push_notify"}]_vars

\* a step in which a call with the null handle returns
NullCall ==
    /\ ret' # ret
    /\ ret'.job = Null
    /\ ret'.op \in {"restart_job", "check_job_is_done", "wait_job_done"}

\* C12: a call of restart_job, check_job_is_done or wait_job_done with the null
\* handle changes nothing but its own result (no driver, queue, registry or
\* job state), check_job_is_done returns true, and no caller is ever blocked
\* waiting for the null handle.
C12_NullHandleNoOp ==
    /\ [][NullCall => UNCHANGED <<engine, m_tasks, m_tasks_queue, m_jobs_map, jobFlags,
                                  act, drv, wrk, cli, destroyed, ghosts,
                                  terminateCalls>>]_vars
    /\ []((ret.op = "check_job_is_done" /\ ret.job = Null) => ret.val = 1)
    /\ [](\A c \in Clients : cli[c].pc \in {"done_blocked", "done_woken"} => cli[c].job # Null)

\* C12 witness: restart_job(nullptr) has returned while the job's activation
\* is in progress, with a task in the queue and the other client waiting
C12_Witness ==
    /\ ret = Result("restart_job", Null, Null, FALSE)
    /\ act[1] = 1
    /\ ~m_is_done[1]
    /\ m_tasks_queue # <<>>
    /\ \E c \in Clients : cli[c].pc = "done_blocked"

\* C13: for a handle that pop_job has taken out of the registry, restart_job
\* starts no driver and changes no flag or counter of the job,
\* check_job_is_done returns true, pop_job returns empty, and wait_job_done
\* returns without blocking.
C13_UnknownHandleNoOp ==
    [][\A j \in Jobs :
          (j \notin m_jobs_map /\ act[j] >= 1) =>
              /\ act'[j] = act[j]
              /\ \A a \in Activations : drv'[<<j, a>>] = drv[<<j, a>>]
              /\ m_is_done'[j] = m_is_done[j]
              /\ m_is_all_task_pushed'[j] = m_is_all_task_pushed[j]
              /\ m_running_tasks'[j] = m_running_tasks[j]
              /\ (ret' # ret /\ ret'.job = j /\ ret'.op = "check_job_is_done") => ret'.val = 1
              /\ (ret' # ret /\ ret'.job = j /\ ret'.op = "pop_job") => ret'.val = Null
              /\ \A c \in Clients : cli'[c].job = j => cli'[c].pc # "done_blocked"]_vars

\* C14: with two jobs submitted concurrently to the counter engine, a job's
\* counter goes down only by one, in the step of a worker that has finished
\* executing a task of that job; a job's counter and flags change only in steps
\* of its own driver or of a worker holding one of its tasks; a job is done
\* only when its own tasks have all finished, once each, and its hook has run
\* once with its counter at 0; and every submitted job reaches Done and stays
\* there.
C14_JobsIndependent ==
    /\ [][\A j \in Jobs :
            /\ m_running_tasks'[j] < m_running_tasks[j] =>
                  /\ m_running_tasks'[j] = m_running_tasks[j] - 1
                  /\ \E w \in Workers : /\ wrk[w].pc = "dec"
                                        /\ wrk'[w].pc = "notify"
                                        /\ wrk[w].task.job = j
                                        /\ execCount[TaskId(wrk[w].task)] = 1
            /\ (\/ m_running_tasks'[j] # m_running_tasks[j]
                \/ m_is_done'[j] # m_is_done[j]
                \/ m_is_all_task_pushed'[j] # m_is_all_task_pushed[j]) =>
                  \/ \E a \in Activations : drv'[<<j, a>>] # drv[<<j, a>>]
                  \/ \E w \in Workers : wrk'[w] # wrk[w] /\ wrk[w].task.job = j
            /\ Done(j) => Done(j)']_vars
    /\ [](\A j \in Jobs :
            is_done(j) => /\ AllTasksDoneOnce(j, act[j])
                          /\ ~Executing(j, act[j])
                          /\ hookRuns[Cur(j)] = 1
                          /\ m_running_tasks[j] = 0)
    /\ [](\A d \in Drivers : hookRuns[d] <= 1)
    /\ \A j \in Jobs : (act[j] > 0) ~> Done(j)

\* C14 witness: a worker has finished a task of job 1 and is about to
\* decrement while the other worker executes a task of job 2, both jobs with
\* tasks outstanding
C14_Witness ==
    \E w, v \in Workers :
        /\ wrk[w].pc = "dec" /\ wrk[w].task.job = 1
        /\ wrk[v].pc = "process" /\ wrk[v].task.job = 2
        /\ m_running_tasks[1] = 2
        /\ m_running_tasks[2] >= 1

\* the activations of job j whose driver thread is running
LiveDrivers(j) == {a \in Activations : drv[<<j, a>>].pc \notin {"none", "exit"}}

\* C15: whatever push_job and restart_job calls are made, a job has at most
\* one running driver; a restart_job of a job whose activation has not reached
\* Done starts no driver and clears no flag; and the hook runs at most once
\* per activation.
C15_OneLiveDriver ==
    /\ [](\A j \in Jobs : Cardinality(LiveDrivers(j)) <= 1)
    /\ [][\A j \in Jobs :
            (act[j] >= 1 /\ ~Done(j)) =>
                /\ act'[j] = act[j]
                /\ m_is_all_task_pushed[j] => m_is_all_task_pushed'[j]]_vars
    /\ [](\A d \in Drivers : hookRuns[d] <= 1)

\* task i of driver d has been appended to the queue by push_task
Appended(d, i) ==
    \/ i <= drv[d].i
    \/ i = drv[d].i + 1 /\ drv[d].pc = "push_notify"

\* in how many places task i of driver d is: entries of the queue, workers
\* holding it, and the record of its finished execution
Places(d, i) ==
    LET t == Task(d[1], d[2], i)
        held == {w \in Workers : wrk[w].task = t}
    IN  Cardinality({k \in 1..Len(m_tasks_queue) : m_tasks_queue[k] = t})
        + Cardinality(held)
        + (IF held = {} /\ execCount[TaskId(t)] >= 1 THEN 1 ELSE 0)

\* C16: the queue changes only by push_task appending at the back, by a
\* worker taking the entry at the front, or by terminate(); a worker that
\* starts a task has taken the oldest entry, so the tasks leave the queue in
\* the order in which they arrived, whichever producers appended them; and
\* every appended task is in one place (queued, held by one worker, or
\* executed once) until shutdown, and never in two.
C16_FifoQueue ==
    /\ [][m_tasks_queue' # m_tasks_queue =>
            \/ \E d \in Drivers :
                  /\ m_tasks_queue' = Append(m_tasks_queue, Task(d[1], d[2], drv[d].i + 1))
                  /\ drv'[d].pc = "push_notify"
            \/ /\ m_tasks_queue # <<>>
               /\ m_tasks_queue' = Tail(m_tasks_queue)
               /\ \E w \in Workers :
                     /\ wrk[w].pc = "lock"
                     /\ wrk'[w] = [pc |-> "process", task |-> Head(m_tasks_queue)]
                     /\ \A v \in Workers \ {w} : wrk'[v] = wrk[v]
            \/ cli'[MainClient].pc # cli[MainClient].pc]_vars
    /\ [][\A w \in Workers :
            (wrk'[w].pc = "process" /\ wrk[w].pc # "process") =>
                /\ m_tasks_queue # <<>>
                /\ wrk'[w].task = Head(m_tasks_queue)
                /\ m_tasks_queue' = Tail(m_tasks_queue)]_vars
    /\ [](\A d \in Drivers : \A i \in 1..TASKS :
            /\ execCount[<<d[1], d[2], i>>] <= 1
            /\ Places(d, i) <= 1
            /\ Appended(d, i) = (Places(d, i) = 1) \/ ShutdownBegun)

\* C16 witness: a worker is executing the task it took from the front while
\* tasks of both producers are queued behind it
C16_Witness ==
    /\ Len(m_tasks_queue) >= 2
    /\ m_tasks_queue[1].job # m_tasks_queue[2].job
    /\ ~IsTerminator(m_tasks_queue[1])
    /\ ~IsTerminator(m_tasks_queue[2])
    /\ \E w \in Workers : wrk[w].pc = "process"

\* C17: without shutdown and with fair scheduling, every activation that was
\* started finishes: all its tasks are executed once, its hook runs once and
\* its driver sets the done flag and ends; and every thread blocked in
\* wait_job_done is woken and returns.
C17_ActivationReachesDone ==
    /\ \A d \in Drivers :
          (drv[d].pc # "none") ~>
              (drv[d].pc = "exit" /\ hookRuns[d] = 1 /\ AllTasksDoneOnce(d[1], d[2]))
    /\ [][\A d \in Drivers :
            (drv[d].pc = "set_done" /\ drv'[d].pc # "set_done") =>
                /\ m_is_done'[d[1]]
                /\ \A c \in Clients : cli'[c].job = d[1] => cli'[c].pc # "done_blocked"]_vars
    /\ \A c \in Clients : (cli[c].pc = "done_blocked") ~> Idle(c)

\* C17 witness: a waiter that was blocked has been woken by the done flag of
\* the restarted activation, after the tasks of that activation
C17_Witness ==
    \E c \in Clients :
        /\ variant = "counter"
        /\ cli[c].pc = "done_woken"
        /\ act[cli[c].job] = 2
        /\ m_is_done[cli[c].job]
        /\ nTasks[cli[c].job] = TASKS
        /\ AllTasksDoneOnce(cli[c].job, 2)

\* the tasks of job j in the queue, and those a worker holds at position p
Queued(j) == Cardinality({k \in 1..Len(m_tasks_queue) : m_tasks_queue[k].job = j})
HeldAt(j, p) == Cardinality({w \in Workers : wrk[w].pc = p /\ wrk[w].task.job = j})

\* C18: in the counter engine, before shutdown begins, a job's counter is
\* never negative and never smaller than the number of its tasks that are
\* queued or dequeued and still executing, so it is 0 only when there is none;
\* it equals that number plus the tasks whose execution has finished and whose
\* decrement is about to happen, so each task counts once from its push to
\* the decrement after its execution.
C18_CounterCoversTasks ==
    (variant = "counter" /\ ~ShutdownBegun) =>
        \A j \in Jobs :
            /\ m_running_tasks[j] >= 0
            /\ m_running_tasks[j] >= Queued(j) + HeldAt(j, "process")
            /\ m_running_tasks[j] = Queued(j) + HeldAt(j, "process") + HeldAt(j, "dec")

\* C18 witness: a job has one task queued and one executing, and counts both
C18_Witness ==
    /\ variant = "counter"
    /\ ~ShutdownBegun
    /\ \E j \in Jobs : /\ Queued(j) = 1
                       /\ HeldAt(j, "process") = 1
                       /\ m_running_tasks[j] = 2

\* C19: once terminate() has been called, every driver thread that is
\* running eventually ends, every push_task blocked at capacity is released,
\* and every thread blocked in wait_job_done returns.
C19_ShutdownReleasesAll ==
    /\ \A d \in Drivers :
          (ShutdownBegun /\ drv[d].pc \notin {"none", "exit"}) ~> (drv[d].pc = "exit")
    /\ \A d \in Drivers :
          (ShutdownBegun /\ drv[d].pc = "push_blocked") ~> (drv[d].pc # "push_blocked")
    /\ \A c \in Clients :
          (ShutdownBegun /\ cli[c].pc = "done_blocked") ~> Idle(c)

\* max(1, h - 1) in the integers
DefaultThreads(h) == IF h - 1 > 1 THEN h - 1 ELSE 1

\* C20: once init has run, the engine has max(1, H - 1) worker threads when
\* the configured count is 0 and n worker threads when it is n > 0, and at
\* least one in every case.
C20_InitThreadCount ==
    ctor # "init" =>
        /\ ctor = "ready"
        /\ Len(m_tasks) = (IF task_threads = 0 THEN DefaultThreads(hardware_concurrency)
                           ELSE task_threads)
        /\ Len(m_tasks) >= 1

====
